---- MODULE Spec2Model ----
\* led-bargraph: the HT16K33 matrix driver (src/src/ht16k33/mod.rs) and the two
\* revisions of the Bargraph mapper that sit on top of it (src/src/lib.rs and
\* src/src/bargraph/mod.rs), as one state machine over the driver's buffer, the
\* chip's display RAM and its blink/brightness registers.
EXTENDS Integers, Sequences, FiniteSets, TLC

VARIABLES
    buffer,      \* HT16K33.buffer: [u8; 16], the in-memory display buffer
    hw,          \* the chip's display RAM, one byte per row
    display,     \* the chip's display setup register (low three bits of 0x8X)
    brightness,  \* the chip's dimming register (low four bits of 0xEX)
    oscillator,  \* the chip's system setup register (bit 0 of 0x2X)
    fault,       \* 0: the bus is healthy; n > 0: the n-th bus transfer from now fails
    revision,    \* which Bargraph the run uses: "lib" (src/src/lib.rs) or "mod" (src/src/bargraph/mod.rs)
    is_ready,    \* Bargraph.is_ready of src/src/bargraph/mod.rs
    show_flag,   \* Bargraph.show of src/src/bargraph/mod.rs, given to Bargraph::new
    trace,       \* what the last call did, in order: buffer clears, LED sets, bus transfers
    last,        \* the last call: its name, its arguments, the buffer before it, its result
    steps        \* number of calls made so far

vars ==
    <<buffer, hw, display, brightness, oscillator, fault, revision, is_ready, show_flag, trace,
      last, steps>>

---------------------------------------------------------------------------
\* Program constants.

ROWS_SIZE == 16
COMMONS_SIZE == 8
BARGRAPH_RESOLUTION == 24
HALF_RESOLUTION == 12
GROUP_SIZE == 4
U8_MAX == 255

BLINK_CMD == 128
BLINK_DISPLAYON == 1
BLINK_OFF == 0
BLINK_2HZ == 2
BLINK_1HZ == 4
BLINK_HALFHZ == 6
SYSTEM_SETUP == 32
OSCILLATOR == 1
BRIGHTNESS_CMD == 224
BRIGHTNESS_MAX == 15

COLOR_OFF == 0
COLOR_GREEN == 1
COLOR_RED == 2
COLOR_YELLOW == 3

\* ht16k33::Display as lib.rs uses it: the display setup register's value.
Display_OFF == BLINK_OFF
Display_ON == BLINK_DISPLAYON
Display_TWO_HZ == BLINK_DISPLAYON + BLINK_2HZ
Display_ONE_HZ == BLINK_DISPLAYON + BLINK_1HZ
Display_HALF_HZ == BLINK_DISPLAYON + BLINK_HALFHZ

\* enum LedColor of lib.rs.
LedColor == {"Off", "Green", "Red", "Yellow"}

Rows == 0 .. (ROWS_SIZE - 1)
Commons == 0 .. (COMMONS_SIZE - 1)
Bars == 0 .. (BARGRAPH_RESOLUTION - 1)
Byte == 0 .. U8_MAX
ZeroBuffer == [r \in Rows |-> 0]

---------------------------------------------------------------------------
\* u8 arithmetic and bit operations.

Bit(x, i) == (x \div (2 ^ i)) % 2

BitTerm(a, b, i, both) ==
    IF both
    THEN (IF Bit(a, i) = 1 /\ Bit(b, i) = 1 THEN 2 ^ i ELSE 0)
    ELSE (IF Bit(a, i) = 1 \/ Bit(b, i) = 1 THEN 2 ^ i ELSE 0)

\* a | b on u8
BitOr(a, b) ==
    BitTerm(a, b, 0, FALSE) + BitTerm(a, b, 1, FALSE) + BitTerm(a, b, 2, FALSE)
    + BitTerm(a, b, 3, FALSE) + BitTerm(a, b, 4, FALSE) + BitTerm(a, b, 5, FALSE)
    + BitTerm(a, b, 6, FALSE) + BitTerm(a, b, 7, FALSE)

\* a & b on u8
BitAnd(a, b) ==
    BitTerm(a, b, 0, TRUE) + BitTerm(a, b, 1, TRUE) + BitTerm(a, b, 2, TRUE)
    + BitTerm(a, b, 3, TRUE) + BitTerm(a, b, 4, TRUE) + BitTerm(a, b, 5, TRUE)
    + BitTerm(a, b, 6, TRUE) + BitTerm(a, b, 7, TRUE)

\* !a on u8
BitNot(a) == U8_MAX - a

\* 1 << offset on u8, offset < 8
Shl1(offset) == (2 ^ offset) % (U8_MAX + 1)

\* byte | (1 << offset), byte & !(1 << offset) and byte & (1 << offset), tabulated.
OrBit == [byte \in Byte |-> [offset \in Commons |-> BitOr(byte, Shl1(offset))]]
AndNotBit == [byte \in Byte |-> [offset \in Commons |-> BitAnd(byte, BitNot(Shl1(offset)))]]
AndBit == [byte \in Byte |-> [offset \in Commons |-> BitAnd(byte, Shl1(offset))]]

---------------------------------------------------------------------------
\* The machine a call runs on: the driver's fields, the chip behind the bus, the
\* events of the call so far and how the call stands ("ok", "err": a Result::Err
\* is on its way to the caller, "panic": the thread has panicked). checked is the
\* build's overflow-checks setting: a u8 overflow panics when it is on and wraps
\* when it is off.

Machine ==
    [buffer |-> buffer, hw |-> hw, display |-> display, brightness |-> brightness,
     oscillator |-> oscillator, fault |-> fault, is_ready |-> is_ready,
     trace |-> <<>>, res |-> "ok", leds |-> <<>>, checked |-> TRUE, overflow |-> FALSE]

Panic(m) == [m EXCEPT !.res = "panic"]

\* The panic of an arithmetic overflow, which only a build with overflow checks has.
OverflowPanic(m) == [m EXCEPT !.res = "panic", !.overflow = TRUE]

\* f applied to m unless the call has already returned early or panicked: the
\* `?` operator and unwinding.
Then(m, f(_)) == IF m.res = "ok" THEN f(m) ELSE m

\* `let _ = ...`: an Err is dropped, a panic is not.
Discard(m) == IF m.res = "err" THEN [m EXCEPT !.res = "ok"] ELSE m

---------------------------------------------------------------------------
\* HT16K33 driver, buffer operations (src/src/ht16k33/mod.rs).

set_led_lost_update(m, led, enabled) ==
    LET pos == led \div COMMONS_SIZE
        offset == led % COMMONS_SIZE
        called == [m EXCEPT !.trace = Append(@, <<"set_led", led, enabled>>)]
    IN  IF pos >= ROWS_SIZE
        THEN Panic(called)
        ELSE [called EXCEPT !.buffer[pos] =
                 IF enabled THEN Shl1(offset) ELSE AndNotBit[@][offset]]

set_led_write_through(m, led, enabled) ==
    LET pos == led \div COMMONS_SIZE
        offset == led % COMMONS_SIZE
        called == [m EXCEPT !.trace = Append(@, <<"set_led", led, enabled>>)]
        value == IF enabled THEN OrBit[m.buffer[pos]][offset]
                 ELSE AndNotBit[m.buffer[pos]][offset]
    IN  IF pos >= ROWS_SIZE
        THEN Panic(called)
        ELSE [called EXCEPT !.buffer[pos] = value, !.hw[pos] = value]

\* set_led with the validation its TODO asks for.
set_led_validated(m, led, enabled) ==
    LET pos == led \div COMMONS_SIZE
        offset == led % COMMONS_SIZE
        called == [m EXCEPT !.trace = Append(@, <<"set_led", led, enabled>>)]
    IN  IF pos >= ROWS_SIZE
        THEN [called EXCEPT !.res = "err"]
        ELSE [called EXCEPT !.buffer[pos] =
                 IF enabled THEN OrBit[@][offset] ELSE AndNotBit[@][offset]]

set_led(m, led, enabled) ==
    LET pos == led \div COMMONS_SIZE
        offset == led % COMMONS_SIZE
        called == [m EXCEPT !.trace = Append(@, <<"set_led", led, enabled>>)]
    IN  IF pos >= ROWS_SIZE
        THEN Panic(called)
        ELSE [called EXCEPT !.buffer[pos] =
                 IF enabled THEN OrBit[@][offset] ELSE AndNotBit[@][offset]]

clear_nothing(m) == [m EXCEPT !.trace = Append(@, <<"clear">>)]

clear_first_row(m) ==
    [m EXCEPT !.buffer[0] = 0, !.trace = Append(@, <<"clear">>)]

clear(m) ==
    [m EXCEPT !.buffer = ZeroBuffer, !.trace = Append(@, <<"clear">>)]

\* c * 16 + a + 8 and c * 16 + a are u8 expressions: out of range they panic
\* (overflow checks on) or wrap (off).
Overflows(x) == x < 0 \/ x > U8_MAX
Wrap(x) == x % (U8_MAX + 1)

set_bar_anode_no_offset(bar) == bar % GROUP_SIZE

set_bar_anode(bar) ==
    IF bar >= HALF_RESOLUTION
    THEN ((bar - HALF_RESOLUTION) % GROUP_SIZE) + GROUP_SIZE
    ELSE bar % GROUP_SIZE

set_bar_cathode(bar) ==
    (IF bar < HALF_RESOLUTION THEN bar ELSE bar - HALF_RESOLUTION) \div GROUP_SIZE

set_bar_green_led_next_cathode(bar) == set_bar_cathode(bar) * 16 + set_bar_anode(bar) + 16

set_bar_green_led(bar) == set_bar_cathode(bar) * 16 + set_bar_anode(bar) + 8

set_bar_red_led_swapped(bar) == set_bar_anode(bar) * 16 + set_bar_cathode(bar)

set_bar_red_led(bar) == set_bar_cathode(bar) * 16 + set_bar_anode(bar)

set_bar(m, bar, color) ==
    LET green == set_bar_green_led(bar)
        red == set_bar_red_led(bar)
        setGreen(x) ==
            IF x.checked /\ Overflows(green)
            THEN OverflowPanic(x)
            ELSE set_led(x, Wrap(green), BitAnd(color, COLOR_GREEN) > 0)
        setRed(x) ==
            IF x.checked /\ Overflows(red)
            THEN OverflowPanic(x)
            ELSE set_led(x, Wrap(red), BitAnd(color, COLOR_RED) > 0)
    IN  Then(setGreen(m), setRed)

---------------------------------------------------------------------------
\* Bargraph of src/src/lib.rs: the mapping between bars and (row, common).

\* The ht16k33 crate's LedLocation::new(row, common): Err outside the matrix.
LedLocation_valid(row, common) == row < ROWS_SIZE /\ common < COMMONS_SIZE

\* The ht16k33 crate's update_display_buffer(location, enabled): the LED at
\* (row, common) is LED address row * 8 + common of the buffer.
update_display_buffer(m, row, common, enabled) ==
    set_led(m, row * COMMONS_SIZE + common, enabled)

bar_to_row_common_no_group(bar) ==
    LET remainder == bar % HALF_RESOLUTION
    IN  <<(remainder \div GROUP_SIZE) * 2, remainder % GROUP_SIZE>>

bar_to_row_common(bar) ==
    LET count == bar \div HALF_RESOLUTION
        remainder == bar % HALF_RESOLUTION
        row == (remainder \div GROUP_SIZE) * 2
        common == (remainder % GROUP_SIZE) + count * GROUP_SIZE
    IN  <<row, common>>

update_bar(m, bar, color) ==
    LET rc == bar_to_row_common(bar)
        row == rc[1]
        common == rc[2]
        red_enabled == color = "Red" \/ color = "Yellow"
        green_enabled == color = "Green" \/ color = "Yellow"
        setGreen(x) == update_display_buffer(x, row + 1, common, green_enabled)
    IN  IF ~LedLocation_valid(row, common) \/ ~LedLocation_valid(row + 1, common)
        THEN Panic(m)
        ELSE Then(update_display_buffer(m, row, common, red_enabled), setGreen)

\* row_common_to_bars: the 24 Option<LedColor> that one buffer row contributes,
\* "None" for a bar the row holds no LED of. The loop runs over the 8 commons in
\* increasing order, each overwriting bars[bar].
RECURSIVE row_common_to_bars_from(_, _, _, _)
row_common_to_bars_from(row_in, common_in, position, bars) ==
    IF position >= COMMONS_SIZE
    THEN bars
    ELSE LET row == row_in \div 2
             green == row_in % 2
             check == Shl1(position)
             count == position \div GROUP_SIZE
             common == position % GROUP_SIZE
             remainder == row * GROUP_SIZE + common
             bar == count * HALF_RESOLUTION + remainder
             enabled == check = AndBit[common_in][position]
             color == IF enabled
                      THEN (IF green = 1 THEN "Green" ELSE "Red")
                      ELSE "Off"
         IN  row_common_to_bars_from(row_in, common_in, position + 1,
                                     [bars EXCEPT ![bar] = color])

row_common_to_bars_red_only(row_in, common_in) ==
    row_common_to_bars_from(row_in - (row_in % 2), common_in, 0, [b \in Bars |-> "None"])

row_common_to_bars(row_in, common_in) ==
    row_common_to_bars_from(row_in, common_in, 0, [b \in Bars |-> "None"])

merge_led_overwrite(led, color) == IF color = "None" THEN led ELSE color

\* The match of show() that merges one contribution into leds[index].
merge_led(led, color) ==
    CASE color = "None" -> led
      [] led = "Green" -> IF color = "Red" THEN "Yellow" ELSE led
      [] led = "Red" -> IF color = "Green" THEN "Yellow" ELSE led
      [] led = "Off" -> color
      [] OTHER -> led

\* The decoding loop of show(): rows 0..5 of the buffer, merged in row order;
\* with the display OFF the loop breaks at once and every LED stays Off.
WIRED_ROWS == 6

RECURSIVE show_leds_from(_, _, _)
show_leds_from(buf, row, leds) ==
    IF row >= WIRED_ROWS
    THEN leds
    ELSE LET bars == row_common_to_bars(row, buf[row])
         IN  show_leds_from(buf, row + 1,
                            [index \in Bars |-> merge_led(leds[index], bars[index])])

\* show() without the break on Display::OFF.
show_leds_display_ignored(buf, disp) ==
    show_leds_from(buf, 0, [index \in Bars |-> "Off"])

\* show() with the loop taking 7 rows.
show_leds_one_row_more(buf, disp) ==
    IF disp = Display_OFF
    THEN [index \in Bars |-> "Off"]
    ELSE LET leds == show_leds_from(buf, 0, [index \in Bars |-> "Off"])
             bars == row_common_to_bars(WIRED_ROWS, buf[WIRED_ROWS])
         IN  [index \in Bars |-> merge_led(leds[index], bars[index])]

show_leds(buf, disp) ==
    IF disp = Display_OFF
    THEN [index \in Bars |-> "Off"]
    ELSE show_leds_from(buf, 0, [index \in Bars |-> "Off"])

---------------------------------------------------------------------------
\* The I2C bus and the chip behind it.

\* One bus transfer: it fails when the pending fault has come due, and otherwise
\* has its effect on the chip.
BusTransfer(m, event, effect(_)) ==
    IF m.fault = 1
    THEN [m EXCEPT !.fault = 0, !.res = "err",
                   !.trace = Append(@, <<"bus_fail">> \o event)]
    ELSE [effect(m) EXCEPT !.fault = IF @ > 0 THEN @ - 1 ELSE 0,
                           !.trace = Append(@, <<"bus">> \o event)]

\* smbus_write_block_data(command, &[]): a command byte, decoded by its high
\* bits as the chip does (0x2X system setup, 0x8X display setup, 0xEX dimming).
ChipCommand(m, command) ==
    LET low == command % 16
        high == command - low
    IN  CASE high = SYSTEM_SETUP -> [m EXCEPT !.oscillator = low % 2]
          [] high = BLINK_CMD -> [m EXCEPT !.display = low % 8]
          [] high = BRIGHTNESS_CMD -> [m EXCEPT !.brightness = low]
          [] OTHER -> m

smbus_write_block_data(m, command) ==
    LET effect(x) == ChipCommand(x, command)
    IN  BusTransfer(m, <<"command", command>>, effect)

\* smbus_write_byte_data(row, value): one byte of display RAM.
smbus_write_byte_data(m, row, value) ==
    LET effect(x) == [x EXCEPT !.hw[row] = value]
    IN  BusTransfer(m, <<"row", row, value>>, effect)

---------------------------------------------------------------------------
\* HT16K33 driver, bus operations (src/src/ht16k33/mod.rs).

set_blink_display_bit_dropped(m, frequency) ==
    smbus_write_block_data(m, BitOr(BLINK_CMD, frequency))

set_blink(m, frequency) ==
    smbus_write_block_data(m, BitOr(BitOr(BLINK_CMD, BLINK_DISPLAYON), frequency))

set_brightness(m, level) ==
    smbus_write_block_data(m, BitOr(BRIGHTNESS_CMD, level))

initialize_brightness_first(m) ==
    LET blink(x) == set_blink(x, BLINK_OFF)
        setup(x) == smbus_write_block_data(x, BitOr(SYSTEM_SETUP, OSCILLATOR))
    IN  Then(Then(set_brightness(m, BRIGHTNESS_MAX), setup), blink)

initialize_no_early_return(m) ==
    set_brightness(set_blink(smbus_write_block_data(m, BitOr(SYSTEM_SETUP, OSCILLATOR)),
                             BLINK_OFF),
                   BRIGHTNESS_MAX)

initialize(m) ==
    LET blink(x) == set_blink(x, BLINK_OFF)
        bright(x) == set_brightness(x, BRIGHTNESS_MAX)
    IN  Then(Then(smbus_write_block_data(m, BitOr(SYSTEM_SETUP, OSCILLATOR)), blink),
             bright)

RECURSIVE write_display_from(_, _)
write_display_from(m, value) ==
    IF value >= ROWS_SIZE \/ m.res # "ok"
    THEN m
    ELSE write_display_from(smbus_write_byte_data(m, value, m.buffer[value]), value + 1)

write_display_from_row_1(m) == write_display_from(m, 1)

write_display_to_the_end(m) ==
    LET rest(x) == [write_display_from([x EXCEPT !.res = "ok"], Len(x.trace))
                       EXCEPT !.res = "err"]
    IN  IF write_display_from(m, 0).res = "err"
        THEN rest(write_display_from(m, 0))
        ELSE write_display_from(m, 0)

write_display(m) == write_display_from(m, 0)

\* ReadDisplay: one bus read of the 16 rows, replacing the buffer.
read_display(m) ==
    LET effect(x) == [x EXCEPT !.buffer = x.hw]
    IN  BusTransfer(m, <<"read">>, effect)

---------------------------------------------------------------------------
\* Bargraph of src/src/lib.rs: operations.

Bargraph_initialize(m) == initialize(m)

\* clear() that also stops the blinking.
Bargraph_clear_steady(m) ==
    LET steady(x) == set_blink(x, BLINK_OFF)
    IN  Then(Then(clear(m), write_display), steady)

Bargraph_clear(m) == Then(clear(m), write_display)

Bargraph_set_blink_2hz(m, enabled) ==
    set_blink(m, IF enabled THEN BLINK_2HZ ELSE BLINK_OFF)

Bargraph_set_blink(m, enabled) ==
    set_blink(m, IF enabled THEN BLINK_1HZ ELSE BLINK_OFF)

show(m) ==
    LET decode(x) == [x EXCEPT !.leds = show_leds(x.buffer, x.display)]
    IN  Then(read_display(m), decode)

RECURSIVE update_value_fill(_, _, _, _)
update_value_fill(m, current_bar, end_bar, fill_color) ==
    IF current_bar >= end_bar \/ m.res # "ok"
    THEN m
    ELSE update_value_fill(update_bar(m, current_bar, fill_color),
                           current_bar + 1, end_bar, fill_color)

update_value_header_filled(fill) == IF fill THEN "Yellow" ELSE "Green"

update_value_header_swapped(fill) == IF fill THEN "Green" ELSE "Red"

update_value_header(fill) == IF fill THEN "Red" ELSE "Green"

update_value_size_rounded_up(range) == (BARGRAPH_RESOLUTION + range - 1) \div range

update_value_size(range) == BARGRAPH_RESOLUTION \div range

update_value_header_only(m, value, range, fill) ==
    IF range = 0
    THEN Panic(m)
    ELSE update_bar(m, value * update_value_size(range) + update_value_size(range) - 1,
                    update_value_header(fill))

update_value(m, value, range, fill) ==
    IF range = 0
    THEN Panic(m)
    ELSE LET value_size == update_value_size(range)
             start_raw == value * value_size
             start_bar == Wrap(start_raw)
             sum_raw == start_bar + value_size
             end_raw == Wrap(sum_raw) - 1
             end_bar == Wrap(end_raw)
             header(x) == update_bar(x, end_bar, update_value_header(fill))
         IN  IF m.checked /\ (Overflows(start_raw) \/ Overflows(sum_raw) \/ Overflows(end_raw))
             THEN OverflowPanic(m)
             ELSE Then(update_value_fill(m, start_bar, end_bar,
                                         IF fill THEN "Yellow" ELSE "Off"),
                       header)

RECURSIVE update_values(_, _, _, _)
update_values(m, current_value, range, clamped_value) ==
    IF current_value > range \/ m.res # "ok"
    THEN m
    ELSE update_values(update_value(m, current_value - 1, range,
                                    current_value <= clamped_value),
                       current_value + 1, range, clamped_value)

update_blink(value, range) == value > range

update_clamped_below(value, range) == IF value > range /\ range > 0 THEN range - 1 ELSE value

update_clamped(value, range) == IF value > range THEN range ELSE value

update_blink_before_flush(m, value, range, show_it) ==
    LET blink == update_blink(value, range)
        clamped_value == update_clamped(value, range)
        values(x) == update_values(x, 1, range, clamped_value)
        blinking(x) == Bargraph_set_blink(x, blink)
        showing(x) == IF show_it THEN show(x) ELSE x
    IN  Then(Then(Then(Then(clear(m), values), blinking), write_display), showing)

update(m, value, range, show_it) ==
    LET blink == update_blink(value, range)
        clamped_value == update_clamped(value, range)
        values(x) == update_values(x, 1, range, clamped_value)
        blinking(x) == Bargraph_set_blink(x, blink)
        showing(x) == IF show_it THEN show(x) ELSE x
    IN  Then(Then(Then(Then(clear(m), values), write_display), blinking), showing)

---------------------------------------------------------------------------
\* Bargraph of src/src/bargraph/mod.rs: the revision with is_ready, whose driver
\* sets whole bars (set_bar) and reports its own readiness and resolution.

\* HT16K33::is_ready() of that revision's driver: the chip has been initialized.
device_is_ready(m) == m.oscillator = OSCILLATOR

\* HT16K33::get_resolution() of that revision's driver.
get_resolution == BARGRAPH_RESOLUTION

is_ready_of(m) == device_is_ready(m) /\ m.is_ready

Err(m) == [m EXCEPT !.res = "err"]

mod_initialize(m) ==
    IF ~device_is_ready(m)
    THEN Err(m)
    ELSE LET bright(x) == Discard(set_brightness(x, BRIGHTNESS_MAX))
             ready(x) == [x EXCEPT !.is_ready = TRUE]
         IN  Then(Then(Discard(set_blink(m, BLINK_OFF)), bright), ready)

mod_clear_ungated(m) == Then(clear(m), write_display)

mod_clear(m) ==
    IF ~is_ready_of(m) THEN Err(m) ELSE Then(clear(m), write_display)

mod_set_blink(m, enabled) ==
    IF ~is_ready_of(m)
    THEN Err(m)
    ELSE set_blink(m, IF enabled THEN BLINK_2HZ ELSE BLINK_OFF)

mod_show(m) == read_display(m)

RECURSIVE set_bar_fill_body(_, _, _, _)
set_bar_fill_body(m, bar, end_bar, color) ==
    IF bar >= end_bar \/ m.res # "ok"
    THEN m
    ELSE set_bar_fill_body(Discard(set_bar(m, bar, color)), bar + 1, end_bar, color)

set_bar_fill(m, bar, range, fill) ==
    IF range = 0
    THEN Panic(m)
    ELSE LET bar_size == get_resolution \div range
             start_raw == bar * bar_size
             start_bar == Wrap(start_raw)
             sum_raw == start_bar + bar_size
             end_raw == Wrap(sum_raw) - 1
             end_bar == Wrap(end_raw)
             header(x) ==
                 Discard(set_bar(x, end_bar, IF fill THEN COLOR_RED ELSE COLOR_GREEN))
         IN  IF m.checked /\ (Overflows(start_raw) \/ Overflows(sum_raw) \/ Overflows(end_raw))
             THEN OverflowPanic(m)
             ELSE Then(set_bar_fill_body(m, start_bar, end_bar,
                                         IF fill THEN COLOR_YELLOW ELSE COLOR_OFF),
                       header)

RECURSIVE mod_update_bars(_, _, _, _, _)
mod_update_bars(m, current_bar, end, range, value) ==
    IF current_bar >= end \/ m.res # "ok"
    THEN m
    ELSE mod_update_bars(set_bar_fill(m, current_bar - 1, range, current_bar <= value),
                         current_bar + 1, end, range, value)

mod_update(m, bar, range, show_it) ==
    LET blink == bar > range
        value == IF bar > range THEN range ELSE bar
        end_raw == range + 1
        bars(x) ==
            IF x.checked /\ Overflows(end_raw)
            THEN OverflowPanic(x)
            ELSE mod_update_bars(x, 1, Wrap(end_raw), range, value)
        blinking(x) == mod_set_blink(x, blink)
        showing(x) == IF show_it THEN mod_show(x) ELSE x
    IN  IF ~is_ready_of(m)
        THEN Err(m)
        ELSE Then(Then(Then(Then(clear(m), bars), blinking), write_display), showing)


---------------------------------------------------------------------------
\* Bounds of the model and the arguments the calls are given.

\* Calls in one run.
MaxSteps == 2
\* How far update's value and range go beyond the 24 bars.
MaxOver == 1

\* The call that follows construction (or the mod revision's initialize) takes
\* any argument; the calls after it take the sample arguments.
Wide == last.op \in {"new", "mod_initialize"}

AllLeds == 0 .. (ROWS_SIZE * COMMONS_SIZE - 1)
\* Arguments past the documented ranges (led 0 to 127, bar 0 to 23), which the u8
\* parameters admit: the first and the last led, and bars whose LED addresses
\* fall in rows 6..15, past the buffer, and past 255.
UnvalidatedLeds == {ROWS_SIZE * COMMONS_SIZE, U8_MAX}
UnvalidatedBars == {24, 43, 44, 76, U8_MAX}
LedArgs == IF Wide THEN AllLeds \cup UnvalidatedLeds ELSE {11}
SetBarArgs == IF Wide THEN Bars \cup UnvalidatedBars ELSE {23}
UpdateBarArgs == IF Wide THEN Bars ELSE {3}
DriverColors == {COLOR_OFF, COLOR_GREEN, COLOR_RED, COLOR_YELLOW}
DriverColorArgs == IF Wide THEN DriverColors ELSE {COLOR_OFF, COLOR_RED}
LedColorArgs == IF Wide THEN LedColor ELSE {"Green", "Yellow"}
Frequencies == {BLINK_OFF, BLINK_2HZ, BLINK_1HZ, BLINK_HALFHZ}
FrequencyArgs == IF Wide THEN Frequencies ELSE {BLINK_HALFHZ}
LevelArgs == IF Wide THEN 0 .. BRIGHTNESS_MAX ELSE {0}
FaultArgs == IF Wide THEN 1 .. (ROWS_SIZE + 2) ELSE {1, ROWS_SIZE + 1}
\* The transfer of a flush that fails (0: none), when no fault is pending.
WriteFaultArgs == IF Wide THEN {0} ELSE {0, 2}
\* The ranges taken with the largest value: the smallest, a divisor of 24, a
\* non-divisor, the resolution, and the largest.
LargestArgs == {1, 5, 12, BARGRAPH_RESOLUTION, U8_MAX}
\* <<value, range>> of update
UpdateArgs ==
    IF Wide
    THEN {vr \in (0 .. (BARGRAPH_RESOLUTION + 2 * MaxOver)) \X (0 .. (BARGRAPH_RESOLUTION + MaxOver)) :
             vr[1] <= vr[2] + MaxOver}
         \cup ({U8_MAX} \X LargestArgs)
    ELSE {<<3, 6>>, <<7, 5>>}
ShowArgs == IF Wide THEN {FALSE} ELSE {TRUE}

---------------------------------------------------------------------------
\* The state machine.

NoCall == [op |-> "new", args |-> <<>>, pre |-> ZeroBuffer, res |-> "ok", leds |-> <<>>]

\* After construction. A "lib" run uses the driver of src/src/ht16k33/mod.rs,
\* whose new() does no bus I/O: the chip is in its power-on state. A "mod" run
\* is handed a driver by its caller, initialized (as the documentation of
\* Bargraph::new does it) or not, together with the show flag.
Init ==
    /\ buffer = ZeroBuffer
    /\ hw = ZeroBuffer
    /\ \/ revision = "lib" /\ oscillator = 0 /\ display = Display_OFF /\ show_flag = FALSE
       \/ /\ revision = "mod"
          /\ \/ oscillator = 0 /\ display = Display_OFF
             \/ oscillator = OSCILLATOR /\ display = Display_ON
          /\ show_flag \in BOOLEAN
    /\ brightness = BRIGHTNESS_MAX
    /\ fault = 0
    /\ is_ready = FALSE
    /\ trace = <<>>
    /\ last = NoCall
    /\ steps = 0

Alive(rev) == revision = rev /\ last.res # "panic" /\ steps < MaxSteps

\* The state after a call that ran on Machine and left it as m. A panic ends the
\* run; what the panicking call did to the buffer is lost with it.
Commit(m, op, args, pre) ==
    /\ buffer' = IF m.res = "panic" THEN buffer ELSE m.buffer
    /\ hw' = m.hw
    /\ display' = m.display
    /\ brightness' = m.brightness
    /\ oscillator' = m.oscillator
    /\ fault' = m.fault
    /\ is_ready' = m.is_ready
    /\ trace' = m.trace
    /\ last' = [op |-> op, args |-> args, pre |-> pre, res |-> m.res, leds |-> m.leds]
    /\ steps' = steps + 1
    /\ UNCHANGED <<revision, show_flag>>

\* The outcomes of a call over the builds: the build with overflow checks, and
\* the build without them where the two differ.
Builds(call(_)) ==
    LET checked == call(Machine)
    IN  IF checked.overflow
        THEN {checked, call([Machine EXCEPT !.checked = FALSE])}
        ELSE {checked}

\* The bus is set to fail at its n-th transfer from now.
InjectFault ==
    /\ \E rev \in {"lib", "mod"} : Alive(rev)
    /\ fault = 0
    /\ \E n \in FaultArgs :
          /\ fault' = n
          /\ last' = [NoCall EXCEPT !.op = "fault", !.args = <<n>>]
    /\ trace' = <<>>
    /\ steps' = steps + 1
    /\ UNCHANGED <<buffer, hw, display, brightness, oscillator, revision, is_ready, show_flag>>

SetLed ==
    /\ Alive("lib")
    /\ \E led \in LedArgs, enabled \in BOOLEAN :
          Commit(set_led(Machine, led, enabled), "set_led", <<led, enabled>>, buffer)

SetBar ==
    /\ Alive("lib")
    /\ \E bar \in SetBarArgs, color \in DriverColorArgs :
          LET call(m) == set_bar(m, bar, color)
          IN  \E m \in Builds(call) : Commit(m, "set_bar", <<bar, color>>, buffer)

UpdateBar ==
    /\ Alive("lib")
    /\ \E bar \in UpdateBarArgs, color \in LedColorArgs :
          Commit(update_bar(Machine, bar, color), "update_bar", <<bar, color>>, buffer)

Clear ==
    /\ Alive("lib")
    /\ Commit(clear(Machine), "clear", <<>>, buffer)

\* Any of the 16 transfers of a flush may be the one the bus fails.
WriteDisplay ==
    /\ Alive("lib")
    /\ \E n \in WriteFaultArgs :
          Commit(write_display([Machine EXCEPT !.fault = IF fault = 0 THEN n ELSE fault]),
                 "write_display", <<>>, buffer)

ReadDisplay ==
    /\ Alive("lib")
    /\ Commit(read_display(Machine), "read_display", <<>>, ZeroBuffer)

Initialize ==
    /\ Alive("lib")
    /\ Commit(initialize(Machine), "initialize", <<>>, buffer)

SetBlink ==
    /\ Alive("lib")
    /\ \E frequency \in FrequencyArgs :
          Commit(set_blink(Machine, frequency), "set_blink", <<frequency>>, buffer)

SetBrightness ==
    /\ Alive("lib")
    /\ \E level \in LevelArgs :
          Commit(set_brightness(Machine, level), "set_brightness", <<level>>, buffer)

BargraphInitialize ==
    /\ Alive("lib")
    /\ Commit(Bargraph_initialize(Machine), "Bargraph_initialize", <<>>, ZeroBuffer)

BargraphClear ==
    /\ Alive("lib")
    /\ Commit(Bargraph_clear(Machine), "Bargraph_clear", <<>>, ZeroBuffer)

BargraphSetBlink ==
    /\ Alive("lib")
    /\ \E enabled \in BOOLEAN :
          Commit(Bargraph_set_blink(Machine, enabled), "Bargraph_set_blink", <<enabled>>,
                 ZeroBuffer)

Show ==
    /\ Alive("lib")
    /\ Commit(show(Machine), "show", <<>>, ZeroBuffer)

Update ==
    /\ Alive("lib")
    /\ \E vr \in UpdateArgs, show_it \in ShowArgs :
          LET call(m) == update(m, vr[1], vr[2], show_it)
          IN  \E m \in Builds(call) : Commit(m, "update", <<vr[1], vr[2], show_it>>, ZeroBuffer)

ModInitialize ==
    /\ Alive("mod")
    /\ Commit(mod_initialize(Machine), "mod_initialize", <<>>, ZeroBuffer)

ModClear ==
    /\ Alive("mod")
    /\ Commit(mod_clear(Machine), "mod_clear", <<>>, ZeroBuffer)

ModSetBlink ==
    /\ Alive("mod")
    /\ \E enabled \in BOOLEAN :
          Commit(mod_set_blink(Machine, enabled), "mod_set_blink", <<enabled>>, ZeroBuffer)

ModShow ==
    /\ Alive("mod")
    /\ Commit(mod_show(Machine), "mod_show", <<>>, ZeroBuffer)

ModUpdate ==
    /\ Alive("mod")
    /\ \E vr \in UpdateArgs :
          LET call(m) == mod_update(m, vr[1], vr[2], show_flag)
          IN  \E m \in Builds(call) : Commit(m, "mod_update", <<vr[1], vr[2]>>, ZeroBuffer)

Next ==
    \/ InjectFault
    \/ SetLed
    \/ SetBar
    \/ UpdateBar
    \/ Clear
    \/ WriteDisplay
    \/ ReadDisplay
    \/ Initialize
    \/ SetBlink
    \/ SetBrightness
    \/ BargraphInitialize
    \/ BargraphClear
    \/ BargraphSetBlink
    \/ Show
    \/ Update
    \/ ModInitialize
    \/ ModClear
    \/ ModSetBlink
    \/ ModShow
    \/ ModUpdate

Spec == Init /\ [][Next]_vars

---------------------------------------------------------------------------
\* Properties.

DisplaysOn == {Display_ON, Display_TWO_HZ, Display_ONE_HZ, Display_HALF_HZ}

\* The LedColor a driver color (bit 0 green, bit 1 red) stands for.
ColorName(color) ==
    CASE color = COLOR_OFF -> "Off"
      [] color = COLOR_GREEN -> "Green"
      [] color = COLOR_RED -> "Red"
      [] OTHER -> "Yellow"

LastOk(ops) == last.op \in ops /\ last.res = "ok"

\* C1: from an all-zero buffer, setting one bar to a color with the forward
\* mapping (set_bar or update_bar) and decoding the buffer as show does, with the
\* display not OFF, gives that color for that bar.
C1_RoundTrip ==
    (LastOk({"set_bar", "update_bar"}) /\ last.pre = ZeroBuffer /\ last.args[1] \in Bars)
    => \A disp \in DisplaysOn :
          show_leds(buffer, disp)[last.args[1]] =
             (IF last.op = "set_bar" THEN ColorName(last.args[2]) ELSE last.args[2])

C1_Witness ==
    /\ LastOk({"update_bar"})
    /\ last.pre = ZeroBuffer
    /\ last.args = <<23, "Yellow">>
    /\ show_leds(buffer, Display_ON)[23] = "Yellow"

\* What update(value, range) is said to leave of logical bar k (1..range) at
\* physical bar i: the last index of the span is the header, the rest the body.
SpanOf(k, range) ==
    LET s == BARGRAPH_RESOLUTION \div range
    IN  ((k - 1) * s) .. ((k - 1) * s + s - 1)

SpanColor(k, i, value, range) ==
    LET s == BARGRAPH_RESOLUTION \div range
        header == i = (k - 1) * s + s - 1
    IN  IF k <= value
        THEN (IF header THEN "Red" ELSE "Yellow")
        ELSE (IF header THEN "Green" ELSE "Off")

UpdateOps == {"update", "mod_update"}
ValidRanges == 1 .. BARGRAPH_RESOLUTION

\* C2: after update(value, range) with range in 1..24 and value <= range, logical
\* bar k occupies physical bars (k-1)*s .. (k-1)*s + s - 1 with s = 24 div range,
\* Yellow with a Red header for k <= value and Off with a Green header for
\* k > value, and the display is on without blinking.
C2_UpdateFills ==
    (LastOk(UpdateOps) /\ last.args[2] \in ValidRanges /\ last.args[1] <= last.args[2])
    => /\ display = Display_ON
       /\ \A k \in 1 .. last.args[2] :
             \A i \in SpanOf(k, last.args[2]) :
                show_leds(buffer, display)[i] = SpanColor(k, i, last.args[1], last.args[2])

C2_Witness ==
    /\ LastOk({"update"})
    /\ last.args[1] = 3 /\ last.args[2] = 6
    /\ show_leds(buffer, display)[11] = "Red"
    /\ show_leds(buffer, display)[12] = "Off"
    /\ show_leds(buffer, display)[15] = "Green"

\* C3 as claimed: after update(0, range) with range in 1..24 every bar decodes
\* as Off, all 16 buffer bytes are zero, and the display does not blink.
C3_UpdateZeroAllOff ==
    (LastOk(UpdateOps) /\ last.args[2] \in ValidRanges /\ last.args[1] = 0)
    => /\ buffer = ZeroBuffer
       /\ \A i \in Bars : show_leds(buffer, Display_ON)[i] = "Off"
       /\ display = Display_ON

HeaderBars(range) ==
    {k * (BARGRAPH_RESOLUTION \div range) - 1 : k \in 1 .. range}

\* C3 as amended: after update(0, range) with range in 1..24 no red LED is lit:
\* the header of each logical bar (physical bar k * (24 div range) - 1) decodes
\* as Green, every other bar as Off, and the display does not blink.
C3_UpdateZeroHeadersOnly ==
    (LastOk(UpdateOps) /\ last.args[2] \in ValidRanges /\ last.args[1] = 0)
    => /\ display = Display_ON
       /\ \A i \in Bars :
             show_leds(buffer, Display_ON)[i] =
                (IF i \in HeaderBars(last.args[2]) THEN "Green" ELSE "Off")

C3_Witness ==
    /\ LastOk({"update"})
    /\ last.args[1] = 0 /\ last.args[2] = 6
    /\ buffer # ZeroBuffer
    /\ show_leds(buffer, Display_ON)[3] = "Green"

\* The buffer the same call leaves when it is given value = range.
BufferOfFull(op, range) ==
    LET m == [Machine EXCEPT !.fault = 0]
    IN  IF op = "update"
        THEN update(m, range, range, FALSE)
        ELSE mod_update(m, range, range, FALSE)

\* C4: for range in 1..24 and value > range, update(value, range) leaves the
\* buffer that update(range, range) leaves, byte for byte, and turns blinking on,
\* where update(range, range) leaves it off.
C4_ClampOnOverflow ==
    (LastOk(UpdateOps) /\ last.args[2] \in ValidRanges /\ last.args[1] > last.args[2])
    => /\ buffer = BufferOfFull(last.op, last.args[2]).buffer
       /\ display \in DisplaysOn \ {Display_ON}
       /\ BufferOfFull(last.op, last.args[2]).display = Display_ON

C4_Witness ==
    /\ LastOk({"update"})
    /\ last.args[1] = 25 /\ last.args[2] = 24
    /\ display # Display_ON
    /\ \A i \in Bars : show_leds(buffer, display)[i] = "Red"

\* C5 as claimed: update sets the blink rate to 2 Hz when value > range and to
\* off (display on, not blinking) when value <= range, and to nothing else.
C5_UpdateBlinks2Hz ==
    LastOk(UpdateOps)
    => display = (IF last.args[1] > last.args[2] THEN Display_TWO_HZ ELSE Display_ON)

\* C5 as amended: update sets the display on without blinking when
\* value <= range; when value > range the update of src/src/lib.rs sets the
\* blink rate to 1 Hz and the update of src/src/bargraph/mod.rs to 2 Hz; update
\* selects no other display state.
C5_UpdateBlinkRate ==
    LastOk(UpdateOps)
    => display =
          (IF last.args[1] <= last.args[2] THEN Display_ON
           ELSE IF last.op = "update" THEN Display_ONE_HZ ELSE Display_TWO_HZ)

C5_Witness ==
    /\ LastOk({"update"})
    /\ last.args[1] > last.args[2]
    /\ display = Display_ONE_HZ

\* C6: whatever came before it, the driver's clear leaves all 16 buffer bytes
\* zero, and the buffer is still 16 bytes long.
C6_ClearZeroes ==
    /\ DOMAIN buffer = Rows
    /\ last.op = "clear" => \A r \in Rows : buffer[r] = 0

C6_Witness ==
    /\ last.op = "clear"
    /\ last.pre # ZeroBuffer
    /\ buffer = ZeroBuffer

\* C7: set_led(address, enabled) with address in 0..127 sets (enabled) or clears
\* (not enabled) bit address mod 8 of row address div 8 and leaves every other
\* bit of every row as it was.
C7_SetLedFrame ==
    (LastOk({"set_led"}) /\ last.args[1] \in AllLeds)
    => \A r \in Rows, b \in Commons :
          Bit(buffer[r], b) =
             (IF r = last.args[1] \div 8 /\ b = last.args[1] % 8
              THEN (IF last.args[2] THEN 1 ELSE 0)
              ELSE Bit(last.pre[r], b))

C7_Witness ==
    /\ LastOk({"set_led"})
    /\ last.args = <<11, TRUE>>
    /\ last.pre[1] = 16
    /\ buffer[1] = 24

\* C8: set_bar(bar, color) with bar in 0..23 calls set_led on exactly two
\* addresses: with h = bar mod 12, cathode = h div 4 and anode = h mod 4 (+ 4
\* when bar >= 12), the green one cathode*16 + anode + 8, enabled iff the color
\* has bit 0, and the red one cathode*16 + anode, enabled iff the color has bit 1.
C8_SetBarTwoLeds ==
    (LastOk({"set_bar"}) /\ last.args[1] \in Bars)
    => LET bar == last.args[1]
           h == bar % 12
           cathode == h \div 4
           anode == (h % 4) + (IF bar >= 12 THEN 4 ELSE 0)
           green == <<"set_led", cathode * 16 + anode + 8, last.args[2] \in {1, 3}>>
           red == <<"set_led", cathode * 16 + anode, last.args[2] \in {2, 3}>>
       IN  /\ Len(trace) = 2
           /\ {trace[1], trace[2]} = {green, red}

C8_Witness ==
    /\ LastOk({"set_bar"})
    /\ last.args = <<23, COLOR_YELLOW>>
    /\ trace = << <<"set_led", 47, TRUE>>, <<"set_led", 39, TRUE>> >>

\* The buffer the other forward mapping makes of the buffer the last call found.
OtherMapping ==
    LET m == [Machine EXCEPT !.buffer = last.pre]
    IN  IF last.op = "set_bar"
        THEN update_bar(m, last.args[1], ColorName(last.args[2]))
        ELSE set_bar(m, last.args[1],
                     CHOOSE c \in DriverColors : ColorName(c) = last.args[2])

\* C9: on every starting buffer, for every bar in 0..23 and every color, the
\* cathode/anode mapping (set_bar) and the divmod-12 mapping (update_bar, red
\* at row 2*((bar mod 12) div 4) and common (bar mod 12) mod 4 + 4*(bar div 12),
\* green one row below) produce the same 16-byte buffer.
C9_MappingsAgree ==
    (LastOk({"set_bar", "update_bar"}) /\ last.args[1] \in Bars)
    => LET b == last.args[1]
           other == OtherMapping
       IN  /\ other.res = "ok"
           /\ other.buffer = buffer
           /\ bar_to_row_common(b) =
                 <<2 * ((b % 12) \div 4), ((b % 12) % 4) + 4 * (b \div 12)>>

C9_Witness ==
    /\ LastOk({"set_bar"})
    /\ last.args = <<23, COLOR_RED>>
    /\ last.pre # ZeroBuffer
    /\ buffer # last.pre
    /\ OtherMapping.buffer = buffer

\* The bar the claim gives bit position p of row r.
DecodedBar(r, p) == (p \div 4) * 12 + (r \div 2) * 4 + (p % 4)

WiredRows == 0 .. (WIRED_ROWS - 1)

\* What the claim has row r with byte common decode to.
DecodedAsClaimed(r, common) ==
    LET bars == row_common_to_bars(r, common)
    IN  /\ \A p \in Commons :
              /\ DecodedBar(r, p) \in Bars
              /\ bars[DecodedBar(r, p)] =
                    (IF Bit(common, p) = 0 THEN "Off"
                     ELSE IF r % 2 = 1 THEN "Green" ELSE "Red")
        /\ \A bar \in Bars \ {DecodedBar(r, p) : p \in Commons} : bars[bar] = "None"

\* The (row, position) pairs that row_common_to_bars decodes as a given color
\* of a given bar.
PositionsOf(bar, color) ==
    {rp \in WiredRows \X Commons : row_common_to_bars(rp[1], Shl1(rp[2]))[bar] = color}

\* Every single-bit row decodes as claimed, and each bar has one position of
\* each color.
OnePositionEach ==
    /\ \A r \in WiredRows, p \in Commons : DecodedAsClaimed(r, Shl1(p))
    /\ \A bar \in Bars :
          /\ Cardinality(PositionsOf(bar, "Red")) = 1
          /\ Cardinality(PositionsOf(bar, "Green")) = 1

\* C10: decoding row r (0..5) attributes bit position p (0..7) to bar
\* (p div 4)*12 + (r div 2)*4 + (p mod 4), as Green when r is odd and as Red when
\* r is even; that bar is in 0..23, and each of the 24 bars has exactly one red
\* and one green position among the 48. Checked on every single-bit row and on
\* the row that a set_led call has just written.
C10_InverseMapping ==
    /\ OnePositionEach
    /\ (LastOk({"set_led"}) /\ last.args[1] \div COMMONS_SIZE \in WiredRows)
       => DecodedAsClaimed(last.args[1] \div COMMONS_SIZE,
                           buffer[last.args[1] \div COMMONS_SIZE])

C10_Witness ==
    /\ LastOk({"set_led"})
    /\ last.args = <<11, TRUE>>
    /\ buffer[1] = 255
    /\ row_common_to_bars(1, buffer[1])[15] = "Green"

\* The events a call leaves in trace: a bus transfer that succeeded or failed.
Sent(event) == <<"bus">> \o event
Failed(event) == <<"bus_fail">> \o event

\* The three commands of the driver's initialize, as the bytes on the bus:
\* 0x21, 0x81, 0xEF.
InitializeCommands == << <<"command", 33>>, <<"command", 129>>, <<"command", 239>> >>

\* C11: a successful driver initialize issues exactly three bus commands, in
\* this order: system setup with oscillator (0x21), blink off with display on
\* (0x81), brightness 15 (0xEF); the display buffer is as it was before.
C11_InitializeCommands ==
    LastOk({"initialize"})
    => /\ trace = [i \in 1 .. 3 |-> Sent(InitializeCommands[i])]
       /\ buffer = last.pre

C11_Witness ==
    /\ LastOk({"initialize"})
    /\ buffer # ZeroBuffer
    /\ Len(trace) = 3
    /\ oscillator = 1 /\ display = Display_ON /\ brightness = 15

\* C12: when the k-th bus write (k in 1..3) of the driver's initialize fails,
\* initialize returns an error, the commands before the k-th have been issued and
\* keep their effect on the chip, the k-th is tried once, and no command after it
\* is issued.
C12_InitializeFailure ==
    [][(last'.op = "initialize" /\ fault \in 1 .. 3)
       => /\ last'.res = "err"
          /\ trace' = [i \in 1 .. fault |->
                          IF i < fault THEN Sent(InitializeCommands[i])
                          ELSE Failed(InitializeCommands[i])]
          /\ oscillator' = (IF fault >= 2 THEN 1 ELSE oscillator)
          /\ display' = (IF fault >= 3 THEN Display_ON ELSE display)
          /\ brightness' = brightness
          /\ buffer' = buffer /\ hw' = hw]_vars

C12_Witness ==
    /\ last.op = "initialize" /\ last.res = "err"
    /\ trace = << Sent(<<"command", 33>>), Failed(<<"command", 129>>) >>
    /\ oscillator = 1
    /\ display = Display_OFF

\* The bus write of row r of a flush of buffer buf.
RowWrite(buf, r) == <<"row", r, buf[r]>>

\* C13: a successful write_display issues exactly 16 bus writes, one per row, in
\* the order 0, 1, ..., 15, the write of row i carrying buffer byte i; afterwards
\* the hardware rows equal the buffer, and the buffer is as it was before.
C13_WriteDisplayRows ==
    LastOk({"write_display"})
    => /\ trace = [i \in 1 .. 16 |-> Sent(RowWrite(buffer, i - 1))]
       /\ hw = buffer
       /\ buffer = last.pre

C13_Witness ==
    /\ LastOk({"write_display"})
    /\ buffer[1] = 8
    /\ hw = buffer
    /\ trace[2] = <<"bus", "row", 1, 8>>

\* C14: when the bus write of row k fails during write_display, write_display
\* returns an error at once: rows 0..k-1 have been written to the hardware, rows
\* k..15 of the hardware are as they were, and the write of row k is tried once.
C14_WriteDisplayFailure ==
    [][(last'.op = "write_display")
       => /\ fault \in 1 .. 16 => last'.res = "err" /\ Len(trace') = fault
          /\ last'.res = "err"
             => LET k == Len(trace') - 1
                IN  /\ k \in Rows
                    /\ trace' = [i \in 1 .. (k + 1) |->
                                    IF i <= k THEN Sent(RowWrite(buffer, i - 1))
                                    ELSE Failed(RowWrite(buffer, k))]
                    /\ \A r \in Rows : hw'[r] = (IF r < k THEN buffer[r] ELSE hw[r])
                    /\ buffer' = buffer]_vars

C14_Witness ==
    /\ last.op = "write_display" /\ last.res = "err"
    /\ Len(trace) = 2
    /\ buffer[0] # 0 /\ hw[0] = buffer[0]
    /\ buffer[1] # 0 /\ hw[1] = 0

\* C15 as claimed: whenever a bus write fails inside a driver or Bargraph
\* operation, the operation returns an error to its caller, and it neither goes
\* on to further bus transfers nor tries the failed one again: the failed
\* transfer is the last event of the call.
C15_FailuresSurface ==
    \A i \in 1 .. Len(trace) :
       trace[i][1] = "bus_fail" => last.res = "err" /\ i = Len(trace)

\* C16 as claimed: update with range = 0 is rejected with an error or is a
\* no-op (buffer, hardware rows and display setup as before, nothing sent on the
\* bus); it does not divide by range (no panic) and sets no LED.
C16_RangeZeroRejected ==
    [][(last'.op \in UpdateOps /\ last'.args[2] = 0)
       => /\ \/ last'.res = "err"
             \/ /\ last'.res = "ok"
                /\ buffer' = buffer /\ hw' = hw /\ display' = display
                /\ trace' = <<>>
          /\ \A i \in 1 .. Len(trace') : trace'[i][1] # "set_led"]_vars

\* The address of the red LED of a bar, which both forward mappings hand to
\* set_led.
RedLed(bar) ==
    LET h == bar % 12
    IN  (h \div 4) * 16 + (h % 4) + 4 * (bar \div 12)

\* The call has set the red LED of the bar, on or off.
Assigned(bar) ==
    \E i \in 1 .. Len(trace) : trace[i][1] = "set_led" /\ trace[i][2] = RedLed(bar)

\* C17 as claimed: after update with range in 1..24, every one of the 24
\* physical bars has been assigned a color by some logical bar, the bars from
\* range * (24 div range) on being part of the last logical bar.
C17_RemainderAbsorbed ==
    (LastOk(UpdateOps) /\ last.args[2] \in ValidRanges)
    => \A bar \in Bars : Assigned(bar)

\* C17 as amended: after update with range in 1..24 the logical bars cover the
\* physical bars 0 .. range * (24 div range) - 1 and no others: update assigns
\* no color to the remainder bars range * (24 div range) .. 23, which are Off
\* whatever the value.
C17_RemainderOff ==
    (LastOk(UpdateOps) /\ last.args[2] \in ValidRanges)
    => \A bar \in Bars :
          LET covered == bar < last.args[2] * (BARGRAPH_RESOLUTION \div last.args[2])
          IN  /\ Assigned(bar) <=> covered
              /\ ~covered => show_leds(buffer, Display_ON)[bar] = "Off"

C17_Witness ==
    /\ LastOk({"update"})
    /\ last.args[1] = 7 /\ last.args[2] = 5
    /\ show_leds(buffer, Display_ON)[19] = "Red"
    /\ \A bar \in 20 .. 23 : ~Assigned(bar) /\ show_leds(buffer, Display_ON)[bar] = "Off"

\* The same update on a driver fresh from construction: zero buffer, zero
\* hardware rows, display as at power-on, no bus fault.
FreshUpdate ==
    LET m == [Machine EXCEPT !.buffer = ZeroBuffer, !.hw = ZeroBuffer,
                             !.display = Display_OFF, !.fault = 0]
    IN  IF last.op = "update"
        THEN update(m, last.args[1], last.args[2], FALSE)
        ELSE mod_update(m, last.args[1], last.args[2], FALSE)

\* C18: for range in 1..24, the buffer and the blink state after a successful
\* update(value, range) are those the same update leaves on a fresh driver,
\* whatever the buffer held and whatever calls came before; so update(v, r)
\* twice leaves what update(v, r) once leaves.
C18_UpdateHistoryIndependent ==
    (LastOk(UpdateOps) /\ last.args[2] \in ValidRanges)
    => LET fresh == FreshUpdate
       IN  /\ fresh.res = "ok"
           /\ buffer = fresh.buffer
           /\ display = fresh.display

C18_Witness ==
    /\ LastOk({"update"})
    /\ steps = 2
    /\ last.args = <<7, 5, TRUE>>
    /\ brightness = 0
    /\ buffer = FreshUpdate.buffer
    /\ display = Display_ONE_HZ

\* C19: set_led, set_bar and the driver's clear do no bus I/O: they leave the
\* hardware rows and the chip's registers as they were and consume no bus
\* transfer; a hardware row changes only by a bus write of that row, as
\* write_display issues, so the hardware keeps the last flushed contents until
\* the next flush.
C19_BufferOpsStayLocal ==
    [][/\ last'.op \in {"set_led", "set_bar", "clear"}
          => /\ hw' = hw /\ display' = display /\ brightness' = brightness
             /\ oscillator' = oscillator /\ fault' = fault
             /\ \A i \in 1 .. Len(trace') : trace'[i][1] \notin {"bus", "bus_fail"}
       /\ \A r \in Rows :
             hw'[r] # hw[r]
             => \E i \in 1 .. Len(trace') : trace'[i] = Sent(<<"row", r, hw'[r]>>)]_vars

C19_Witness ==
    /\ LastOk({"set_bar"})
    /\ hw # ZeroBuffer
    /\ hw = last.pre
    /\ buffer # hw

\* The command byte of each allowed rate: 0x80 OR 0x01 OR the rate code, that is
\* 0x81 (off), 0x83 (2 Hz), 0x85 (1 Hz), 0x87 (0.5 Hz).
BlinkCommandByte ==
    (BLINK_OFF :> 129) @@ (BLINK_2HZ :> 131) @@ (BLINK_1HZ :> 133) @@ (BLINK_HALFHZ :> 135)

\* C20: set_blink with one of the four allowed rates issues exactly one bus
\* write, of the command byte 0x80 OR 0x01 OR the rate code; the four bytes are
\* pairwise distinct and all have the display-on bit; the display buffer is as
\* it was before.
C20_SetBlinkCommand ==
    (LastOk({"set_blink"}) /\ last.args[1] \in Frequencies)
    => /\ trace = << Sent(<<"command", BlinkCommandByte[last.args[1]]>>) >>
       /\ \A f \in Frequencies \ {last.args[1]} :
             BlinkCommandByte[f] # trace[1][3]
       /\ Bit(trace[1][3], 0) = 1
       /\ Bit(trace[1][3], 7) = 1
       /\ display = trace[1][3] % 8
       /\ buffer = last.pre

C20_Witness ==
    /\ LastOk({"set_blink"})
    /\ last.args = <<BLINK_HALFHZ>>
    /\ trace = << <<"bus", "command", 135>> >>
    /\ display = Display_HALF_HZ
    /\ buffer # ZeroBuffer

\* C21: in the Bargraph with is_ready, is_ready() (the device is ready and the
\* Bargraph has been initialized) is false after construction and true after a
\* successful initialize; while it is false, clear, update and set_blink return
\* an error, leave the buffer as it was and send nothing on the bus; initialize
\* on a device that is not ready returns an error and leaves is_ready false.
C21_ReadinessGating ==
    [][revision = "mod"
       => /\ last.op = "new" => ~is_ready
          /\ (last'.op \in {"mod_clear", "mod_update", "mod_set_blink"}
              /\ ~(oscillator = OSCILLATOR /\ is_ready))
             => /\ last'.res = "err"
                /\ buffer' = buffer /\ hw' = hw /\ display' = display
                /\ trace' = <<>>
          /\ (last'.op = "mod_initialize" /\ oscillator # OSCILLATOR)
             => /\ last'.res = "err"
                /\ ~is_ready'
                /\ trace' = <<>>
          /\ (last'.op = "mod_initialize" /\ oscillator = OSCILLATOR)
             => last'.res = "ok" /\ is_ready' /\ oscillator' = OSCILLATOR]_vars

C21_Witness ==
    /\ revision = "mod"
    /\ last.op = "mod_update" /\ last.res = "err"
    /\ last.args = <<3, 6>>
    /\ oscillator = OSCILLATOR /\ ~is_ready
    /\ trace = <<>>
    /\ buffer = ZeroBuffer

\* The merge of one contribution into a merged color, case by case.
MergeCases ==
    /\ \A led \in LedColor : merge_led(led, "Off") = led /\ merge_led(led, "None") = led
    /\ \A color \in {"Green", "Red"} :
          /\ merge_led("Off", color) = color
          /\ merge_led(color, color) = color
          /\ merge_led("Yellow", color) = "Yellow"
    /\ merge_led("Green", "Red") = "Yellow"
    /\ merge_led("Red", "Green") = "Yellow"

\* The rows of buf from row down to 0 merged into leds, last row first.
RECURSIVE MergedDownFrom(_, _, _)
MergedDownFrom(buf, row, leds) ==
    IF row < 0
    THEN leds
    ELSE LET bars == row_common_to_bars(row, buf[row])
         IN  MergedDownFrom(buf, row - 1,
                            [index \in Bars |-> merge_led(leds[index], bars[index])])

\* C22: merging contributions into a bar that starts Off, an Off contribution
\* changes nothing, the first Green or Red replaces Off, Red on Green and Green
\* on Red give Yellow, and Yellow stays; so a bar decodes Yellow exactly when its
\* red bit and its green bit are both set, in whichever order the rows are merged.
C22_MergeRule ==
    /\ MergeCases
    /\ LastOk({"set_bar", "update_bar"})
       => LET leds == show_leds(buffer, Display_ON)
          IN  /\ \A bar \in Bars :
                    leds[bar] = "Yellow"
                    <=> /\ Bit(buffer[RedLed(bar) \div 8], RedLed(bar) % 8) = 1
                        /\ Bit(buffer[(RedLed(bar) + 8) \div 8], RedLed(bar) % 8) = 1
              /\ leds = MergedDownFrom(buffer, WIRED_ROWS - 1, [index \in Bars |-> "Off"])

C22_Witness ==
    /\ LastOk({"update_bar"})
    /\ last.args = <<3, "Yellow">>
    /\ show_leds(buffer, Display_ON)[3] = "Yellow"
    /\ show_leds(buffer, Display_ON)[7] = "Red"
    /\ show_leds(buffer, Display_ON)[11] = "Green"

\* The step of update an event of its trace belongs to: 0 the clear, 1 an LED
\* set, then the flush and the blink command in the order given (flush_step,
\* blink_step), 4 the readback of a show that follows.
StepOf(event, flush_step, blink_step) ==
    CASE event[1] = "clear" -> 0
      [] event[1] = "set_led" -> 1
      [] event[1] = "bus" /\ event[2] = "row" -> flush_step
      [] event[1] = "bus" /\ event[2] = "command" -> blink_step
      [] OTHER -> 4

\* The bar an LED address of the wired rows belongs to.
BarOfLed(led) == DecodedBar(led \div COMMONS_SIZE, led % COMMONS_SIZE)

\* The trace of a successful update goes through the steps in order, with one
\* clear, the 16 row writes and one blink command, and sets the LEDs bar by bar
\* in increasing order of the bars.
UpdateInOrder(flush_step, blink_step) ==
    /\ trace[1] = <<"clear">>
    /\ Cardinality({i \in 1 .. Len(trace) : StepOf(trace[i], flush_step, blink_step) = flush_step})
          = ROWS_SIZE
    /\ Cardinality({i \in 1 .. Len(trace) : StepOf(trace[i], flush_step, blink_step) = blink_step})
          = 1
    /\ \A i \in 1 .. (Len(trace) - 1) :
          /\ StepOf(trace[i], flush_step, blink_step)
                <= StepOf(trace[i + 1], flush_step, blink_step)
          /\ StepOf(trace[i + 1], flush_step, blink_step) # 0
          /\ (trace[i][1] = "set_led" /\ trace[i + 1][1] = "set_led")
             => BarOfLed(trace[i][2]) <= BarOfLed(trace[i + 1][2])

\* C23 as claimed: within one successful update the buffer is cleared, then the
\* LEDs of the logical bars are set in increasing bar order, then the buffer is
\* flushed, then the blink command is issued; no LED is set after the flush and
\* the blink command does not come before the flush.
C23_UpdateStepsFlushThenBlink ==
    (LastOk(UpdateOps) /\ last.args[2] \in ValidRanges) => UpdateInOrder(2, 3)

\* C23 as amended: within one successful update the buffer is cleared first and
\* the LEDs of the logical bars are then set in increasing bar order, before any
\* bus transfer; the update of src/src/lib.rs then flushes the buffer and issues
\* the blink command after the flush, while the update of
\* src/src/bargraph/mod.rs issues the blink command first and flushes after it.
C23_UpdateSteps ==
    (LastOk(UpdateOps) /\ last.args[2] \in ValidRanges)
    => IF last.op = "update" THEN UpdateInOrder(2, 3) ELSE UpdateInOrder(3, 2)

C23_Witness ==
    /\ LastOk({"mod_update"})
    /\ last.args = <<6, 5>>
    /\ trace[1] = <<"clear">>
    /\ trace[2][1] = "set_led"
    /\ \E i \in 3 .. (Len(trace) - 1) :
          /\ trace[i - 1][1] = "set_led"
          /\ trace[i][1] = "bus" /\ trace[i][2] = "command"
          /\ trace[i + 1][1] = "bus" /\ trace[i + 1][2] = "row" /\ trace[i + 1][3] = 0

\* The buffer with rows 6..15 replaced by the byte given.
WithUnwiredRows(buf, byte) ==
    [r \in 0 .. (ROWS_SIZE - 1) |-> IF r < WIRED_ROWS THEN buf[r] ELSE byte]

\* C24: the decoding of show depends only on rows 0..5 of the buffer: whatever
\* set_led has left in rows 6..15, the 24 colors decoded are those of the buffer
\* with these rows zeroed, and those of the buffer with every bit of them set.
C24_DecodeWiredRowsOnly ==
    LastOk({"set_led"})
    => \A disp \in {Display_ON, Display_OFF} :
          LET leds == show_leds(buffer, disp)
          IN  /\ leds = show_leds(WithUnwiredRows(buffer, 0), disp)
              /\ leds = show_leds(WithUnwiredRows(buffer, U8_MAX), disp)

C24_Witness ==
    /\ LastOk({"set_led"})
    /\ last.args = <<48, TRUE>>
    /\ buffer[6] = 1
    /\ show_leds(buffer, Display_ON) = [index \in Bars |-> "Off"]

\* The LED addresses set_bar computes for a bar of 12 or more, as exact integers.
ExactRedLed(bar) == ((bar - HALF_RESOLUTION) \div GROUP_SIZE) * 16 + (bar % GROUP_SIZE) + GROUP_SIZE
ExactGreenLed(bar) == ExactRedLed(bar) + 8

\* The LED addresses of the wired rows 0..5.
WiredLeds == 0 .. (WIRED_ROWS * COMMONS_SIZE - 1)

\* The addresses passed to set_led during the last call.
LedsSet == {trace[i][2] : i \in {j \in 1 .. Len(trace) : trace[j][1] = "set_led"}}

\* C25 as claimed: set_led and set_bar validate nothing and return no error
\* value: set_led with an address of 128 or more indexes the buffer at a row of
\* 16 or more, which is outside it, and every LED address set_bar derives for a
\* bar of 24 or more is outside the 48 wired ones.
C25_UnvalidatedOutsideWired ==
    /\ (last.op = "set_led" /\ last.args[1] >= ROWS_SIZE * COMMONS_SIZE)
       => (last.res = "panic" /\ buffer = last.pre)
    /\ (last.op = "set_bar" /\ last.args[1] >= BARGRAPH_RESOLUTION)
       => (last.res # "err" /\ LedsSet \cap WiredLeds = {})

\* C25 as amended: set_led and set_bar validate nothing and return no error
\* value. set_led with an address of 128 or more indexes the buffer at a row of
\* 16 or more and panics, the buffer untouched. For a bar of 24 or more the
\* exact addresses c * 16 + a + 8 and c * 16 + a are 52 or more; set_bar sets
\* them in rows 6..15 while they are below 128, panics in set_led while they are
\* in 128..255, and past 255 it panics on the overflow in a build with overflow
\* checks and passes the addresses modulo 256 in a build without, which may be
\* addresses of the wired rows (bar 76 sets LEDs 12 and 4).
C25_Unvalidated ==
    /\ (last.op = "set_led" /\ last.args[1] >= ROWS_SIZE * COMMONS_SIZE)
       => (last.res = "panic" /\ buffer = last.pre)
    /\ (last.op = "set_bar" /\ last.args[1] >= BARGRAPH_RESOLUTION)
       => LET green == ExactGreenLed(last.args[1])
              red == ExactRedLed(last.args[1])
          IN  /\ last.res \in {"ok", "panic"}
              /\ red >= 52
              /\ LedsSet \subseteq {green % (U8_MAX + 1), red % (U8_MAX + 1)}
              /\ green < ROWS_SIZE * COMMONS_SIZE
                 => /\ last.res = "ok"
                    /\ LedsSet = {green, red}
                    /\ \A r \in WiredRows : buffer[r] = last.pre[r]
              /\ (green >= ROWS_SIZE * COMMONS_SIZE /\ green <= U8_MAX)
                 => (last.res = "panic" /\ LedsSet = {green} /\ buffer = last.pre)
              /\ green > U8_MAX
                 => \/ last.res = "panic" /\ LedsSet = {} /\ buffer = last.pre
                    \/ LedsSet # {} /\ (last.res = "ok" <=> LedsSet \subseteq AllLeds)

C25_Witness ==
    /\ LastOk({"set_bar"})
    /\ last.args = <<76, COLOR_YELLOW>>
    /\ LedsSet = {12, 4}
    /\ buffer[1] = 16
    /\ buffer[0] = 16

\* C26: for every range in 1..24 and every value, update computes its bar
\* indices start = (k - 1) * s and end = start + s - 1 (s = 24 div range, k in
\* 1..range) within 0..23 without overflow or underflow of the 8-bit arithmetic:
\* the call does not panic, every LED it sets has an address in 0..47, and rows
\* 6..15 of the buffer are zero after it.
C26_UpdateStaysWired ==
    (last.op \in UpdateOps /\ last.args[2] \in ValidRanges)
    => /\ \A k \in 1 .. last.args[2] :
             LET s == update_value_size(last.args[2])
                 start == (k - 1) * s
                 end == start + s - 1
             IN  start \in Bars /\ end \in Bars /\ start <= end
       /\ last.res # "panic"
       /\ LedsSet \subseteq WiredLeds
       /\ last.res = "ok"
          => \A r \in WIRED_ROWS .. (ROWS_SIZE - 1) : buffer[r] = 0

C26_Witness ==
    /\ LastOk({"update"})
    /\ last.args[1] = U8_MAX /\ last.args[2] = BARGRAPH_RESOLUTION
    /\ LedsSet = WiredLeds
    /\ \A r \in WiredRows : buffer[r] = IF r % 2 = 0 THEN U8_MAX ELSE 0
    /\ display = Display_ONE_HZ

\* C27 as claimed: for every range in 25..255 and every value, update
\* evaluates no 8-bit addition or subtraction whose exact result is outside
\* 0..255, the loop bound range + 1 and the header index start + size - 1 with
\* size = 24 div range included, and passes no bar outside 0..23 to the
\* bar-setting primitive: the call does not panic and sets no LED outside the
\* addresses 0..47 of these bars.
C27_LargeRangeSafe ==
    (last.op \in UpdateOps /\ last.args[2] > BARGRAPH_RESOLUTION /\ last.res # "err")
    => /\ ~Overflows(update_value_size(last.args[2]) - 1)
       /\ last.op = "mod_update" => ~Overflows(last.args[2] + 1)
       /\ last.res = "ok"
       /\ LedsSet \subseteq WiredLeds

\* The LED addresses of the 24 bars under each forward mapping.
SetBarLeds == {set_bar_red_led(b) : b \in Bars} \cup {set_bar_green_led(b) : b \in Bars}
UpdateBarLeds ==
    {bar_to_row_common(b)[1] * COMMONS_SIZE + bar_to_row_common(b)[2] : b \in Bars}
    \cup {(bar_to_row_common(b)[1] + 1) * COMMONS_SIZE + bar_to_row_common(b)[2] : b \in Bars}

\* C28: the 24 bars map to 48 pairwise distinct LED addresses, the 48 of rows
\* 0..5, and setting one bar to a color, on whatever buffer the call finds,
\* gives that bar the color in the decoding and changes the decoded color of no
\* other bar.
C28_BarsDisjoint ==
    /\ Cardinality(SetBarLeds) = 2 * BARGRAPH_RESOLUTION
    /\ SetBarLeds = WiredLeds
    /\ UpdateBarLeds = SetBarLeds
    /\ (LastOk({"set_bar", "update_bar"}) /\ last.args[1] \in Bars)
       => LET before == show_leds(last.pre, Display_ON)
              after == show_leds(buffer, Display_ON)
              color == IF last.op = "set_bar" THEN ColorName(last.args[2]) ELSE last.args[2]
          IN  /\ after[last.args[1]] = color
              /\ \A b \in Bars \ {last.args[1]} : after[b] = before[b]

C28_Witness ==
    /\ LastOk({"set_bar"})
    /\ last.args = <<23, COLOR_RED>>
    /\ show_leds(last.pre, Display_ON)[23] = "Green"
    /\ show_leds(buffer, Display_ON)[23] = "Red"
    /\ show_leds(buffer, Display_ON)[10] = "Yellow"
    /\ show_leds(buffer, Display_ON)[11] = "Red"

AllOff == [index \in Bars |-> "Off"]

\* C29: with the display state OFF, show decodes every one of the 24 bars as Off
\* whatever the buffer holds (the buffer a set_led call has left included); after
\* every successful update the display state is on or blinking, never OFF, and
\* the show that ends the update decodes the bars from the buffer.
C29_ShowWhenOff ==
    /\ (LastOk({"show"}) /\ display = Display_OFF) => last.leds = AllOff
    /\ LastOk({"set_led"}) => show_leds(buffer, Display_OFF) = AllOff
    /\ LastOk(UpdateOps) => display \in DisplaysOn
    /\ (LastOk({"update"}) /\ last.args[3])
       => /\ last.leds = show_leds_from(buffer, 0, AllOff)
          /\ last.args[2] \in ValidRanges => last.leds # AllOff

C29_Witness ==
    /\ LastOk({"update"})
    /\ last.args = <<7, 5, TRUE>>
    /\ display = Display_ONE_HZ
    /\ last.leds[19] = "Red"
    /\ last.leds[18] = "Yellow"
    /\ last.leds[23] = "Off"

ClearOps == {"Bargraph_clear", "mod_clear"}

\* C30: a successful clear of the Bargraph zeroes the buffer and flushes it in
\* 16 row writes, and issues no blink or brightness command (no command byte at
\* all): the display state and the brightness after it are those before it. So
\* a clear that follows a successful update with value > range leaves the blank
\* display blinking, and a later successful update with value <= range is what
\* stops the blinking.
C30_ClearKeepsBlink ==
    [][/\ (last'.op \in ClearOps /\ last'.res = "ok")
          => /\ buffer' = ZeroBuffer /\ hw' = ZeroBuffer
             /\ display' = display /\ brightness' = brightness
             /\ oscillator' = oscillator
             /\ trace' = <<<<"clear">>>>
                         \o [i \in 1 .. ROWS_SIZE |-> Sent(<<"row", i - 1, 0>>)]
             /\ (LastOk(UpdateOps) /\ last.args[1] > last.args[2])
                => display' \in {Display_ONE_HZ, Display_TWO_HZ}
       /\ (last'.op \in UpdateOps /\ last'.res = "ok" /\ last'.args[1] <= last'.args[2])
          => display' = Display_ON]_vars

C30_Witness ==
    /\ LastOk({"Bargraph_clear"})
    /\ display = Display_ONE_HZ
    /\ buffer = ZeroBuffer
    /\ hw = ZeroBuffer
    /\ Len(trace) = ROWS_SIZE + 1

====
